---- MODULE Spec2Model ----
(***************************************************************************)
(* A model of logger.py: the class Logger, its process-wide registry       *)
(* open_loggers, and the three operations __init__ (with create_log_file), *)
(* log and close, run by several threads.  A step holds at most one access *)
(* to state another thread can reach (an attribute of a published Logger,  *)
(* the registry, a file object), with the lock acquisitions before it and  *)
(* the lock releases after it; what a thread does to a Logger no other     *)
(* thread can reach yet is part of the step that follows or precedes it.   *)
(***************************************************************************)
EXTENDS Integers, Sequences, FiniteSets, TLC

\* ------------------------------------------------------------- bounds
MaxCalls == 3       \* calls the threads make in all: Logger(...), log(), close()
DeepCalls == 4      \* the same, for the runs of SpecDeep

\* the identities a Logger object can get: one for every call at most
LoggerIds == 1..(IF MaxCalls > DeepCalls THEN MaxCalls ELSE DeepCalls)

Threads == {"t1", "t2"}
NoThread == "none"  \* a free threading.Lock

\* ------------------------------------------------------------- inputs
OutputDirs == {"logs"}
FileTypes == {"log", "txt", "csv"}
LevelNames == {"debug", "ERROR", "bogus"}      \* names passed to log()
ConfigNames == {"info", "ERROR", "bogus"}  \* names passed as LogLevel
Messages == {<<"x">>}                          \* a string is the sequence of its pieces
Contexts == {"", "ctx"}                        \* "" is a falsy context
SettingsValues == {"levels", "empty"}          \* what json.load can return
ClassValues == {"unset", "levels"}             \* what the class holds as settings

\* ------------------------------------------------------------- values
NoValue == -1       \* Python's None where an ordinal is expected
NoFile == 0         \* Python's None where a file object is expected

\* the two ValueErrors: of line 88, and of a write to a closed file object
FileTypeError == "ValueError: Log file type isn't supported"
ClosedFileError == "ValueError: I/O operation on closed file"

\* self.supported_formats
supported_formats == {"log", "txt"}

\* str.upper() on the names in use
upper(s) ==
    CASE s = "debug" -> "DEBUG"
      [] s = "info"  -> "INFO"
      [] s = "bogus" -> "BOGUS"
      [] OTHER       -> s

\* settings['LogLevels'] of a settings object that has the table
LogLevels == [DEBUG |-> 0, INFO |-> 1, WARNING |-> 2, ERROR |-> 3]

\* dict.get(name): the ordinal, or None
get(table, name) == IF name \in DOMAIN table THEN table[name] ELSE NoValue

\* Logger.format(*args): " ".join(map(str, args)), every string being the
\* sequence of its pieces
RECURSIVE format(_)
format(a) ==
    IF Len(a) = 0 THEN <<>>
    ELSE IF Len(a) = 1 THEN a[1]
    ELSE a[1] \o <<" ">> \o format(Tail(a))

\* Path(output_dir).resolve(), "." being the working directory itself
resolve(output_dir) ==
    IF output_dir = "." THEN <<"cwd">> ELSE <<"cwd", output_dir>>

\* get_log_name: file_path / f"{timestamp}.{log_file_type}"
get_log_name(file_path, timestamp, log_file_type) ==
    file_path \o <<timestamp, log_file_type>>

\* the timestamp of the one clock second in which the constructions happen
Now == "T0"

Paths == {get_log_name(resolve(d), Now, x) : d \in OutputDirs, x \in supported_formats}

\* the line log() writes: f"[{timestamp}] [{level}] {message}\n", with
\* " [{context}]" before the newline when the context is truthy
record(level, message, context) ==
    IF context = "" THEN <<level, message>> ELSE <<level, message, context>>

VARIABLES
    classSettings,      \* what the attribute lookup self.settings finds on the class
    fileSettings,       \* what json.load returns for ./log_settings.json
    open_loggers,       \* Logger.open_loggers: path -> file object (NoFile: no key)
    open_loggers_lock,  \* Logger.open_loggers_lock: the thread holding it
    files,              \* the file objects open() has returned, by identity
    loggers,            \* the Logger objects, by identity
    pc,                 \* each thread's position
    self,               \* each thread's Logger object
    args,               \* each thread's arguments of the call in progress
    ret,                \* who called log(): "top", "create" or "close"
    exc,                \* close(): the exception pending across the finally block
    result,             \* how each thread's last call ended
    op,                 \* each thread's last call: "construct", "log", "close"
    appended,           \* records the thread's last call appended
    wasOpen,            \* log(): line 160 found self.log_file set
    startedClosed,      \* the call began after a close() of the object had completed
    closedLoggers,      \* Logger objects on which a close() has completed
    stderr,             \* lines written to sys.stderr
    calls,              \* calls made by the threads so far
    budget,             \* calls the threads make in all
    configurable        \* the names the callers pass as LogLevel

vars == <<classSettings, fileSettings, open_loggers, open_loggers_lock, files, loggers, pc, self,
          args, ret, exc, result, op, appended, wasOpen, startedClosed,
          closedLoggers, stderr, calls, budget, configurable>>

NoArgs == [level |-> "", message |-> <<>>, context |-> ""]

Start(b, names) ==
    /\ budget = b
    /\ configurable = names
    /\ classSettings \in ClassValues
    /\ fileSettings \in SettingsValues
    /\ open_loggers = [p \in Paths |-> NoFile]
    /\ open_loggers_lock = NoThread
    /\ files = <<>>
    /\ loggers = <<>>
    /\ pc = [t \in Threads |-> "idle"]
    /\ self = [t \in Threads |-> 0]
    /\ args = [t \in Threads |-> NoArgs]
    /\ ret = [t \in Threads |-> "top"]
    /\ exc = [t \in Threads |-> "ok"]
    /\ result = [t \in Threads |-> "none"]
    /\ op = [t \in Threads |-> "none"]
    /\ appended = [t \in Threads |-> 0]
    /\ wasOpen = [t \in Threads |-> FALSE]
    /\ startedClosed = [t \in Threads |-> FALSE]
    /\ closedLoggers = {}
    /\ stderr = 0
    /\ calls = 0

Init == Start(MaxCalls, {"info", "bogus"})

InitDeep == Start(DeepCalls, {"info", "bogus"})

\* callers that configure a floor at INFO or above it
InitLevels == Start(MaxCalls, {"info", "ERROR"})

\* the Logger objects a caller holds: those whose __init__ returned
IsPublished(i) == i \in DOMAIN loggers /\ loggers[i].published
Published == {i \in DOMAIN loggers : IsPublished(i)}

\* ------------------------------------------------------------- log()
\* a floor that lets pass only what is above it
PassesAbove(log_level_value, configured_level_value) ==
    log_level_value > configured_level_value

\* line 169: the record is written when its level is at or above the floor
Passes(log_level_value, configured_level_value) ==
    log_level_value >= configured_level_value

\* a log() without the test of line 160
DecideUnchecked(L, level) ==
    IF L.settings # "levels" THEN "ok"
    ELSE IF get(LogLevels, level) = NoValue \/ L.configured_level_value = NoValue
         THEN "LevelNotSupported"
    ELSE IF Passes(get(LogLevels, level), L.configured_level_value) THEN "write"
    ELSE "ok"

\* lines 160-169 with the raises of lines 183 and 186, for a Logger L and an
\* upper-cased level: "write" (go on to line 171) or how log() ends
Decide(L, level) ==
    IF L.log_file = NoFile THEN "FileNotOpen"
    ELSE IF L.settings # "levels" THEN "ok"
    ELSE IF get(LogLevels, level) = NoValue \/ L.configured_level_value = NoValue
         THEN "LevelNotSupported"
    ELSE IF Passes(get(LogLevels, level), L.configured_level_value) THEN "write"
    ELSE "ok"

\* log() has ended with outcome e ("ok" or the exception raised): control
\* goes back to the caller.  From line 213 of create_log_file (IOError alone
\* is caught there) __init__ goes on to load the settings file (lines
\* 102-118) and returns the Logger; from line 244 of close() the finally
\* block runs whatever the outcome; otherwise the thread's own code.
\* L is the Logger as log() leaves it.
LogReturn(t, e, L) ==
    /\ ret' = [ret EXCEPT ![t] = "top"]
    /\ CASE ret[t] = "create" ->
              /\ pc' = [pc EXCEPT ![t] = "done"]
              /\ result' = [result EXCEPT ![t] = e]
              /\ loggers' = [loggers EXCEPT ![self[t]] =
                      IF e = "ok"
                      THEN [L EXCEPT !.settings = fileSettings, !.published = TRUE]
                      ELSE L]
              /\ UNCHANGED exc
         [] ret[t] = "close" ->
              /\ pc' = [pc EXCEPT ![t] = "cl_fclose"]
              /\ exc' = [exc EXCEPT ![t] = e]
              /\ loggers' = [loggers EXCEPT ![self[t]] = L]
              /\ UNCHANGED result
         [] OTHER ->
              /\ pc' = [pc EXCEPT ![t] = "done"]
              /\ result' = [result EXCEPT ![t] = e]
              /\ loggers' = [loggers EXCEPT ![self[t]] = L]
              /\ UNCHANGED exc

\* a "with self.lock:" block that leaves without releasing
NotReleased(L) == L

\* leaving the "with self.lock:" block of line 158, normally or by an
\* exception: the lock is released
Released(L) == [L EXCEPT !.lock = NoThread]

\* a log() that enters without regard for the lock
LockIgnored(i) == TRUE

\* "with self.lock:" is entered when the lock is free
LockFree(i) == loggers[i].lock = NoThread

\* lines 150-169: format the message, upper-case the level, take self.lock,
\* and decide under it; the lock is released when log() ends here
LogCheck(t) ==
    LET i == self[t]
        L == loggers[i]
        level == upper(args[t].level)
        d == Decide(L, level)
    IN  /\ pc[t] = "log_lock"
        /\ LockFree(i)
        /\ args' = [args EXCEPT ![t].level = level, ![t].message = format(<<@>>)]
        /\ wasOpen' = [wasOpen EXCEPT ![t] = (L.log_file # NoFile)]
        /\ IF d = "write"
           THEN /\ loggers' = [loggers EXCEPT ![i].lock = t]
                /\ pc' = [pc EXCEPT ![t] = "log_write"]
                /\ UNCHANGED <<ret, result, exc>>
           ELSE LogReturn(t, d, Released([L EXCEPT !.lock = t]))
        /\ UNCHANGED <<budget, configurable, classSettings, fileSettings, open_loggers, open_loggers_lock,
                       files, self, op, appended, startedClosed, closedLoggers,
                       stderr, calls>>

\* lines 171-178: self.log_file is read again and written to; the lock is
\* released on the way out, normally or with the exception of the write
LogWrite(t) ==
    LET i == self[t]
        f == loggers[i].log_file
        L == Released(loggers[i])
    IN  /\ pc[t] = "log_write"
        /\ IF f = NoFile
           THEN /\ LogReturn(t, "AttributeError", L)
                /\ UNCHANGED <<files, appended>>
           ELSE IF files[f].closed
           THEN /\ LogReturn(t, ClosedFileError, L)
                /\ UNCHANGED <<files, appended>>
           ELSE /\ files' = [files EXCEPT ![f].data =
                        Append(@, record(args[t].level, args[t].message, args[t].context))]
                /\ appended' = [appended EXCEPT ![t] = @ + 1]
                /\ LogReturn(t, "ok", L)
        /\ UNCHANGED <<budget, configurable, classSettings, fileSettings, open_loggers, open_loggers_lock,
                       self, args, op, wasOpen, startedClosed, closedLoggers, stderr,
                       calls>>

\* a caller's log(level, message, context) on a Logger it holds
Log(t, i, level, message, context) ==
    /\ pc[t] = "idle"
    /\ IsPublished(i)
    /\ calls < budget
    /\ calls' = calls + 1
    /\ pc' = [pc EXCEPT ![t] = "log_lock"]
    /\ self' = [self EXCEPT ![t] = i]
    /\ args' = [args EXCEPT ![t] = [level |-> level, message |-> message,
                                    context |-> context]]
    /\ ret' = [ret EXCEPT ![t] = "top"]
    /\ op' = [op EXCEPT ![t] = "log"]
    /\ result' = [result EXCEPT ![t] = "running"]
    /\ startedClosed' = [startedClosed EXCEPT ![t] = (i \in closedLoggers)]
    /\ UNCHANGED <<budget, configurable, classSettings, fileSettings, open_loggers, open_loggers_lock,
                   files, loggers, exc, appended, wasOpen, closedLoggers, stderr>>

\* ------------------------------------------------------------- __init__
\* lines 59-100 and 197-205: the lock, the level (read through
\* self.settings, which only the class can supply at this point), the file
\* type, the path, the file name, and the registry lookup of line 205
Construct(t, output_dir, log_file_type, LogLevel) ==
    LET file_path == resolve(output_dir)
        log_file_name == get_log_name(file_path, Now, log_file_type)
    IN
    /\ pc[t] = "idle"
    /\ calls < budget
    /\ LogLevel \in configurable
    /\ calls' = calls + 1
    /\ op' = [op EXCEPT ![t] = "construct"]
    /\ args' = [args EXCEPT ![t].level = LogLevel]
    /\ IF classSettings = "unset"
       THEN /\ result' = [result EXCEPT ![t] = "AttributeError"]
            /\ pc' = [pc EXCEPT ![t] = "done"]
            /\ UNCHANGED <<loggers, self>>
       ELSE IF log_file_type \notin supported_formats
       THEN /\ result' = [result EXCEPT ![t] = FileTypeError]
            /\ pc' = [pc EXCEPT ![t] = "done"]
            /\ UNCHANGED <<loggers, self>>
       ELSE /\ loggers' = Append(loggers,
                  [lock |-> NoThread,
                   loglevel |-> upper(LogLevel),
                   configured_level_value |-> get(LogLevels, upper(LogLevel)),
                   log_file_type |-> log_file_type,
                   file_path |-> file_path,
                   log_file |-> NoFile,
                   log_file_name |-> log_file_name,
                   settings |-> classSettings,
                   published |-> FALSE])
            /\ self' = [self EXCEPT ![t] = Len(loggers) + 1]
            /\ pc' = [pc EXCEPT ![t] = IF open_loggers[log_file_name] # NoFile
                                       THEN "c_reuse" ELSE "c_open"]
            /\ result' = [result EXCEPT ![t] = "running"]
    /\ UNCHANGED <<budget, configurable, classSettings, fileSettings, open_loggers, open_loggers_lock,
                   files, ret, exc, appended, wasOpen, startedClosed, closedLoggers,
                   stderr>>

\* line 207: take the registered file (KeyError when the key has gone
\* since); then lines 102-118: load the settings file, __init__ returns
CreateReuse(t) ==
    LET i == self[t]
        f == open_loggers[loggers[i].log_file_name]
    IN  /\ pc[t] = "c_reuse"
        /\ pc' = [pc EXCEPT ![t] = "done"]
        /\ IF f # NoFile
           THEN /\ loggers' = [loggers EXCEPT ![i].log_file = f,
                                              ![i].settings = fileSettings,
                                              ![i].published = TRUE]
                /\ result' = [result EXCEPT ![t] = "ok"]
           ELSE /\ result' = [result EXCEPT ![t] = "KeyError"]
                /\ UNCHANGED loggers
        /\ UNCHANGED <<budget, configurable, classSettings, fileSettings, open_loggers, open_loggers_lock,
                       files, self, args, ret, exc, op, appended, wasOpen,
                       startedClosed, closedLoggers, stderr, calls>>

\* line 211: Logger.open_loggers[self.log_file_name] = self.log_file
Register(registry, name, file) == [registry EXCEPT ![name] = file]

\* lines 209-213: open the file in append mode, register it and call
\* log('info', "Starting")
CreateOpen(t) ==
    LET i == self[t] IN
    /\ pc[t] = "c_open"
    /\ files' = Append(files, [path |-> loggers[i].log_file_name,
                               closed |-> FALSE, data |-> <<>>])
    /\ loggers' = [loggers EXCEPT ![i].log_file = Len(files) + 1]
    /\ open_loggers' = Register(open_loggers, loggers[i].log_file_name, Len(files) + 1)
    /\ args' = [args EXCEPT ![t] = [level |-> "info", message |-> <<"Starting">>,
                                    context |-> ""]]
    /\ ret' = [ret EXCEPT ![t] = "create"]
    /\ pc' = [pc EXCEPT ![t] = "log_lock"]
    /\ UNCHANGED <<budget, configurable, classSettings, fileSettings, open_loggers_lock, self, exc, result,
                   op, appended, wasOpen, startedClosed, closedLoggers, stderr,
                   calls>>

\* lines 209 and 214-216: open() raises IOError, which is reported on
\* sys.stderr; then lines 102-118: __init__ returns a Logger without a file
CreateOpenFails(t) ==
    LET i == self[t] IN
    /\ pc[t] = "c_open"
    /\ stderr' = stderr + 1
    /\ loggers' = [loggers EXCEPT ![i].settings = fileSettings,
                                  ![i].published = TRUE]
    /\ pc' = [pc EXCEPT ![t] = "done"]
    /\ result' = [result EXCEPT ![t] = "ok"]
    /\ UNCHANGED <<budget, configurable, classSettings, fileSettings, open_loggers, open_loggers_lock,
                   files, self, args, ret, exc, op, appended, wasOpen,
                   startedClosed, closedLoggers, calls>>

\* ------------------------------------------------------------- close()
\* a caller's close() on a Logger it holds, lines 240-244 and 257-259:
\* FileNotOpen, or log('info', "Closing file")
Close(t, i) ==
    /\ pc[t] = "idle"
    /\ IsPublished(i)
    /\ calls < budget
    /\ calls' = calls + 1
    /\ self' = [self EXCEPT ![t] = i]
    /\ op' = [op EXCEPT ![t] = "close"]
    /\ startedClosed' = [startedClosed EXCEPT ![t] = (i \in closedLoggers)]
    /\ IF loggers[i].log_file = NoFile
       THEN /\ pc' = [pc EXCEPT ![t] = "done"]
            /\ result' = [result EXCEPT ![t] = "FileNotOpen"]
            /\ closedLoggers' = closedLoggers \cup {i}
            /\ UNCHANGED <<args, ret>>
       ELSE /\ args' = [args EXCEPT ![t] = [level |-> "info",
                                            message |-> <<"Closing file">>,
                                            context |-> ""]]
            /\ ret' = [ret EXCEPT ![t] = "close"]
            /\ pc' = [pc EXCEPT ![t] = "log_lock"]
            /\ result' = [result EXCEPT ![t] = "running"]
            /\ UNCHANGED closedLoggers
    /\ UNCHANGED <<budget, configurable, classSettings, fileSettings, open_loggers, open_loggers_lock,
                   files, loggers, exc, appended, wasOpen, stderr>>

\* line 248, first statement of the finally block: self.log_file.close()
\* (closing a closed file is allowed; None has no close)
CloseFile(t) ==
    LET i == self[t]
        f == loggers[i].log_file
    IN  /\ pc[t] = "cl_fclose"
        /\ IF f = NoFile
           THEN /\ pc' = [pc EXCEPT ![t] = "done"]
                /\ result' = [result EXCEPT ![t] = "AttributeError"]
                /\ closedLoggers' = closedLoggers \cup {i}
                /\ UNCHANGED files
           ELSE /\ files' = [files EXCEPT ![f].closed = TRUE]
                /\ pc' = [pc EXCEPT ![t] = "cl_lock"]
                /\ UNCHANGED <<result, closedLoggers>>
        /\ UNCHANGED <<budget, configurable, classSettings, fileSettings, open_loggers, open_loggers_lock,
                       loggers, self, args, ret, exc, op, appended, wasOpen,
                       startedClosed, stderr, calls>>

\* line 250: "with self.open_loggers_lock:" is entered when the lock is free
CloseLock(t) ==
    /\ pc[t] = "cl_lock"
    /\ open_loggers_lock = NoThread
    /\ open_loggers_lock' = t
    /\ pc' = [pc EXCEPT ![t] = "cl_evict"]
    /\ UNCHANGED <<budget, configurable, classSettings, fileSettings, open_loggers, files, loggers, self,
                   args, ret, exc, result, op, appended, wasOpen, startedClosed,
                   closedLoggers, stderr, calls>>

\* a close() that empties the registry
EvictAll(registry, name) == [p \in DOMAIN registry |-> NoFile]

\* a close() that leaves the registry as it is
EvictSkipped(registry, name) == registry

\* lines 252-254: delete the key of this Logger's file name, whatever file
\* is registered under it
Evict(registry, name) ==
    IF registry[name] # NoFile THEN [registry EXCEPT ![name] = NoFile] ELSE registry

\* a "with self.open_loggers_lock:" block that leaves without releasing
UnlockSkipped(lock, t) == lock

\* leaving the "with self.open_loggers_lock:" block of line 250
Unlock(lock, t) == IF lock = t THEN NoThread ELSE lock

\* lines 252-254 and the release of open_loggers_lock
CloseEvict(t) ==
    LET i == self[t] IN
    /\ pc[t] = "cl_evict"
    /\ open_loggers' = Evict(open_loggers, loggers[i].log_file_name)
    /\ open_loggers_lock' = Unlock(open_loggers_lock, t)
    /\ pc' = [pc EXCEPT ![t] = "cl_null"]
    /\ UNCHANGED <<budget, configurable, classSettings, fileSettings, files, loggers, self, args, ret, exc,
                   result, op, appended, wasOpen, startedClosed, closedLoggers,
                   stderr, calls>>

\* a close() that leaves self.log_file as it is
NotNulled(L) == L

\* line 256: self.log_file = None
Nulled(L) == [L EXCEPT !.log_file = NoFile]

\* line 256; the exception of line 244, if any, is raised again when the
\* finally block ends
CloseNull(t) ==
    LET i == self[t] IN
    /\ pc[t] = "cl_null"
    /\ loggers' = [loggers EXCEPT ![i] = Nulled(@)]
    /\ closedLoggers' = closedLoggers \cup {i}
    /\ pc' = [pc EXCEPT ![t] = "done"]
    /\ result' = [result EXCEPT ![t] = exc[t]]
    /\ UNCHANGED <<budget, configurable, classSettings, fileSettings, open_loggers, open_loggers_lock,
                   files, self, args, ret, exc, op, appended, wasOpen, startedClosed,
                   stderr, calls>>

\* the call is over: the thread is back in its own code, with the outcome
\* of the call behind it
Return(t) ==
    /\ pc[t] = "done"
    /\ pc' = [pc EXCEPT ![t] = "idle"]
    /\ self' = [self EXCEPT ![t] = 0]
    /\ args' = [args EXCEPT ![t] = NoArgs]
    /\ exc' = [exc EXCEPT ![t] = "ok"]
    /\ result' = [result EXCEPT ![t] = "none"]
    /\ op' = [op EXCEPT ![t] = "none"]
    /\ appended' = [appended EXCEPT ![t] = 0]
    /\ wasOpen' = [wasOpen EXCEPT ![t] = FALSE]
    /\ startedClosed' = [startedClosed EXCEPT ![t] = FALSE]
    /\ UNCHANGED <<budget, configurable, classSettings, fileSettings, open_loggers, open_loggers_lock,
                   files, loggers, ret, closedLoggers, stderr, calls>>

\* ------------------------------------------------------------- the program
Next ==
    \/ \E t \in Threads, d \in OutputDirs, x \in FileTypes, l \in ConfigNames :
          Construct(t, d, x, l)
    \/ \E t \in Threads : CreateReuse(t)
    \/ \E t \in Threads : CreateOpen(t)
    \/ \E t \in Threads : CreateOpenFails(t)
    \/ \E t \in Threads, i \in LoggerIds, l \in LevelNames, m \in Messages,
          c \in Contexts : Log(t, i, l, m, c)
    \/ \E t \in Threads : LogCheck(t)
    \/ \E t \in Threads : LogWrite(t)
    \/ \E t \in Threads, i \in LoggerIds : Close(t, i)
    \/ \E t \in Threads : CloseFile(t)
    \/ \E t \in Threads : CloseLock(t)
    \/ \E t \in Threads : CloseEvict(t)
    \/ \E t \in Threads : CloseNull(t)
    \/ \E t \in Threads : Return(t)

Spec == Init /\ [][Next]_vars

\* the same program with one more call, for the scenarios that take four
SpecDeep == InitDeep /\ [][Next]_vars

\* the same program with callers that configure INFO or ERROR as the floor
SpecLevels == InitLevels /\ [][Next]_vars

\* the next step of the call thread t is in: the interpreter runs every
\* thread that can run, and a thread waiting for a lock gets it once it is
\* free and stays free
Proceed(t) ==
    \/ CreateReuse(t) \/ CreateOpen(t) \/ CreateOpenFails(t)
    \/ LogCheck(t) \/ LogWrite(t)
    \/ CloseFile(t) \/ CloseLock(t) \/ CloseEvict(t) \/ CloseNull(t)
    \/ Return(t)

\* callers that configure the default floor, INFO
InitFair == Start(MaxCalls, {"info"})

\* the program under a scheduler that lets every thread run
SpecFair == InitFair /\ [][Next]_vars /\ \A t \in Threads : WF_vars(Proceed(t))

\* ------------------------------------------------------------- properties
Loggers == 1..Len(loggers)
Files == 1..Len(files)

\* the file objects of a path that are open
OpenFilesOn(p) == {f \in Files : files[f].path = p /\ ~files[f].closed}

\* a call of thread t is in progress
Running(t) == pc[t] \notin {"idle", "done"}

\* thread t is inside close() of Logger i
Closing(t, i) == Running(t) /\ op[t] = "close" /\ self[t] = i

\* Logger i is held by its caller and open: __init__ returned it with a
\* file, and no close() has nulled the file or is at work on it
Held(i) ==
    /\ i \in Published
    /\ loggers[i].log_file # NoFile
    /\ \A t \in Threads : ~Closing(t, i)

\* thread t stands between line 169 and the write of lines 171-178
InWrite(t) == pc[t] = "log_write"

\* a caller's call of thread t has returned or raised
Ended(t, o) == pc[t] = "done" /\ op[t] = o

\* C1: a path has at most one open file object at a time, however many
\* constructions and closes ran and however they interleaved.
C1_OneOpenFilePerPath ==
    \A p \in Paths : Cardinality(OpenFilesOn(p)) <= 1

\* C2 (the half of the equivalence that close() is about): while a Logger is
\* held open, the file object it refers to is open and its path has an entry
\* in the registry; closing another holder of the path does not change that.
C2_HeldFileOpenAndRegistered ==
    \A i \in Loggers : Held(i) =>
        /\ ~files[loggers[i].log_file].closed
        /\ open_loggers[loggers[i].log_file_name] # NoFile

\* C3: no log() call of a caller ends with the error of a write to a closed
\* file object, whatever close() calls ran before it or run beside it.
C3_NoWriteOnClosedFile ==
    \A t \in Threads : op[t] = "log" => result[t] # ClosedFileError

\* close() has been called on Logger i
CloseCalled(i) ==
    \/ i \in closedLoggers
    \/ \E t \in Threads : op[t] = "close" /\ self[t] = i /\ pc[t] # "idle"

\* C4: a caller's log() on an open Logger (it found the file set, and no
\* close() of that Logger has been called), with a level of ordinal o and a
\* threshold t both resolved, returns normally, having appended exactly one
\* record when o >= t and nothing when o < t.
C4_RecordIffAtOrAboveThreshold ==
    \A t \in Threads :
        LET L == loggers[self[t]]
            o == get(LogLevels, args[t].level)
        IN  (/\ Ended(t, "log") /\ wasOpen[t] /\ ~CloseCalled(self[t])
             /\ L.settings = "levels"
             /\ o # NoValue /\ L.configured_level_value # NoValue)
            => /\ result[t] = "ok"
               /\ appended[t] = (IF o >= L.configured_level_value THEN 1 ELSE 0)

\* C5: no two threads stand in the write section of log() for the same file
\* object, whichever Logger objects they came through.
C5_OneWriterPerFile ==
    \A t1, t2 \in Threads :
        (t1 # t2 /\ InWrite(t1) /\ InWrite(t2) /\ loggers[self[t1]].log_file # NoFile)
        => loggers[self[t1]].log_file # loggers[self[t2]].log_file

\* C6: no two threads stand in the check-and-write section of log() of the
\* same Logger, and the thread that stands there holds that Logger's lock.
C6_OneWriterPerLogger ==
    /\ \A t1, t2 \in Threads :
          (t1 # t2 /\ InWrite(t1) /\ InWrite(t2)) => self[t1] # self[t2]
    /\ \A t \in Threads : InWrite(t) => loggers[self[t]].lock = t

\* C6's case: one thread writes through a Logger while another waits at the
\* lock of the same Logger with a log() of its own
C6_Witness ==
    \E t1, t2 \in Threads :
        /\ InWrite(t1) /\ pc[t2] = "log_lock" /\ self[t1] = self[t2]
        /\ op[t1] = "log" /\ op[t2] = "log"

\* C7: a close() called after a close() of the same Logger has returned
\* fails with FileNotOpen.
C7_SecondCloseFileNotOpen ==
    \A t \in Threads :
        (Ended(t, "close") /\ startedClosed[t]) => result[t] = "FileNotOpen"

\* C7's case: a Logger that had a file was closed, and a second close() of
\* it has ended
C7_Witness ==
    \E t \in Threads :
        /\ Ended(t, "close") /\ startedClosed[t] /\ result[t] = "FileNotOpen"
        /\ stderr = 0
        /\ \E f \in Files : files[f].closed /\ files[f].path = loggers[self[t]].log_file_name

\* C8: a Logger on which close() has returned has no file and never gets one
\* again, and every log() called on it from then on fails with FileNotOpen
\* and appends nothing.
C8_ClosedIsTerminal ==
    /\ \A i \in closedLoggers : loggers[i].log_file = NoFile
    /\ \A t \in Threads :
          (Ended(t, "log") /\ startedClosed[t])
          => (result[t] = "FileNotOpen" /\ appended[t] = 0 /\ ~wasOpen[t])

\* C8's case: a log() on a Logger that had a file and was closed has ended
C8_Witness ==
    \E t \in Threads :
        /\ Ended(t, "log") /\ startedClosed[t] /\ result[t] = "FileNotOpen"
        /\ stderr = 0
        /\ \E f \in Files : files[f].closed /\ files[f].path = loggers[self[t]].log_file_name

\* C9: a caller's log() that found the Logger open, with a level name that
\* is not in the level table, fails with LevelNotSupported and appends
\* nothing.
C9_UnknownLevelRaises ==
    \A t \in Threads :
        (Ended(t, "log") /\ wasOpen[t] /\ get(LogLevels, args[t].level) = NoValue)
        => (result[t] = "LevelNotSupported" /\ appended[t] = 0)

\* C10 (its second half): no Logger constructed with a level name that is
\* not in the level table is returned to the caller with a file.
C10_UnknownLevelNeverOpen ==
    \A i \in Published :
        loggers[i].configured_level_value = NoValue => loggers[i].log_file = NoFile

\* C11: the step in which open() fails ends the constructor with
\* FileOpenFailed raised to its caller, and leaves the registry as it was.
C11_OpenFailureSignalled ==
    [][\A t \in Threads :
          CreateOpenFails(t) =>
              /\ result'[t] = "FileOpenFailed"
              /\ open_loggers' = open_loggers]_vars

\* C12: when the log('info', "Closing file") of a close() has raised, the
\* close() goes on all the same: by line 256 the file object is closed and
\* no longer registered, and when the close() ends (raising the exception
\* of the write) the Logger has no file.
C12_CloseProceedsAfterFailedWrite ==
    \A t \in Threads :
        LET i == self[t]
            f == loggers[i].log_file
        IN  (op[t] = "close" /\ exc[t] # "ok") =>
              /\ (pc[t] = "cl_null" /\ f # NoFile) =>
                    /\ files[f].closed
                    /\ open_loggers[loggers[i].log_file_name] # f
              /\ pc[t] = "done" =>
                    /\ loggers[i].log_file = NoFile
                    /\ i \in closedLoggers

\* C12's case: a close() whose "Closing file" record was refused has ended,
\* with the file closed and the path out of the registry
C12_Witness ==
    \E t \in Threads :
        /\ Ended(t, "close") /\ exc[t] = "LevelNotSupported"
        /\ result[t] = "LevelNotSupported"
        /\ loggers[self[t]].log_file = NoFile
        /\ open_loggers[loggers[self[t]].log_file_name] = NoFile
        /\ \E f \in Files : files[f].closed /\ files[f].path = loggers[self[t]].log_file_name

\* the constructor of thread t opened the file itself: it is the one that
\* went through log(), which found the file set
Opener(t) == op[t] = "construct" /\ wasOpen[t]

\* the "Starting" records in file object f
Startings(f) ==
    {k \in DOMAIN files[f].data : files[f].data[k] = <<"INFO", <<"Starting">>>>}

C14_UnsupportedExtensionFails ==
    [][\A t \in Threads, d \in OutputDirs, l \in ConfigNames,
          x \in FileTypes \ supported_formats :
          Construct(t, d, x, l) =>
              /\ result'[t] = FileTypeError
              /\ files' = files
              /\ open_loggers' = open_loggers]_vars

\* C15: the file object a constructor takes from the registry at line 207
\* is open at that moment, whatever close() is at work on the same path; a
\* constructor that finds no entry opens a new file object (CreateOpen).
C15_NoStaleHandle ==
    [][\A t \in Threads :
          CreateReuse(t) =>
              LET f == loggers'[self[t]].log_file
              IN  f # NoFile => ~files[f].closed]_vars

\* the locks of Logger objects that thread t holds
LocksOf(t) == {i \in Loggers : loggers[i].lock = t}

\* a thread holding the registry lock neither holds nor waits for the lock
\* of a Logger, and a thread holding the lock of a Logger neither holds nor
\* waits for the registry lock
LockOrder ==
    \A t \in Threads :
        /\ open_loggers_lock = t => (LocksOf(t) = {} /\ pc[t] # "log_lock")
        /\ LocksOf(t) # {} => (open_loggers_lock # t /\ pc[t] # "cl_lock")

\* C16: the two kinds of lock are never held or awaited together by one
\* thread, and under a scheduler that lets every thread run each call of a
\* constructor, of log() and of close() comes to its end.
C16_LockOrderAndProgress ==
    /\ []LockOrder
    /\ \A t \in Threads : (pc[t] # "idle") ~> (pc[t] = "idle")

\* C16's case: one thread is in close() with the registry lock while the
\* other is in the write section of log() with the lock of a Logger
C16_Witness ==
    \E t1, t2 \in Threads :
        /\ t1 # t2
        /\ open_loggers_lock = t1 /\ pc[t1] = "cl_evict"
        /\ InWrite(t2) /\ LocksOf(t2) # {}

\* C17: a close() that comes to lines 252-254 and finds no key for its file
\* name in the registry ends there, raising UnknownHandle to its caller.
C17_ReleaseUnknownSignals ==
    [][\A t \in Threads :
          (/\ pc[t] = "cl_evict"
           /\ open_loggers[loggers[self[t]].log_file_name] = NoFile
           /\ pc'[t] # "cl_evict")
          => (pc'[t] = "done" /\ result'[t] = "UnknownHandle")]_vars

\* C18: a constructor called with a supported file type and a level name of
\* the level table finds the table when it resolves the floor at line 80:
\* it raises nothing there and goes on to create_log_file.
C18_TableLoadedBeforeRead ==
    [][\A t \in Threads, d \in OutputDirs, x \in supported_formats,
          l \in {n \in ConfigNames : get(LogLevels, upper(n)) # NoValue} :
          Construct(t, d, x, l) =>
              (result'[t] = "running" /\ pc'[t] \in {"c_open", "c_reuse"})]_vars

\* C19: the lock of a Logger is held only by a thread that stands inside
\* the "with self.lock:" block of a log() on that Logger; once the log() has
\* returned or raised, whichever way, the thread holds the lock no more.
C19_LockFreeAfterLog ==
    \A t \in Threads, i \in Loggers :
        loggers[i].lock = t => (InWrite(t) /\ self[t] = i)

\* C19's case: a log() on an open Logger has ended by raising
\* LevelNotSupported inside the block, and the lock is free
C19_Witness ==
    \E t \in Threads :
        /\ Ended(t, "log") /\ wasOpen[t] /\ result[t] = "LevelNotSupported"
        /\ loggers[self[t]].lock = NoThread

\* C20: no step of a close() changes the registry entry of a path other
\* than the path of the Logger being closed, nor any file object of another
\* path; what Loggers on other paths write to stays open and registered.
C20_CloseLeavesOtherPaths ==
    [][\A t \in Threads :
          (op[t] = "close" /\ pc'[t] # pc[t]) =>
              \A p \in Paths \ {loggers[self[t]].log_file_name} :
                  /\ open_loggers'[p] = open_loggers[p]
                  /\ \A f \in Files : files[f].path = p => files'[f] = files[f]]_vars

\* C20's case: a close() has deleted the entry of its own path and ended,
\* while a Logger on another path holds a file that is open and registered
C20_Witness ==
    \E t \in Threads, i \in Published :
        /\ Ended(t, "close") /\ result[t] = "ok"
        /\ open_loggers[loggers[self[t]].log_file_name] = NoFile
        /\ loggers[i].log_file_name # loggers[self[t]].log_file_name
        /\ Held(i)
        /\ ~files[loggers[i].log_file].closed
        /\ open_loggers[loggers[i].log_file_name] = loggers[i].log_file

====
